---- MODULE Spec2Model ----
(***************************************************************************)
(* A model of the signal polyfill of src/src/index.ts: the revision clock, *)
(* State, Computed, Watcher and untrack.  The derivation functions that    *)
(* user code hands to Computed are small programs (sequences of reads,     *)
(* writes, untrack blocks and throws) run by an explicit call stack, one   *)
(* frame per Computed.get() in progress.  The engine is synchronous: while *)
(* a frame is on the stack only that frame's next step is enabled.         *)
(***************************************************************************)
EXTENDS Integers, Sequences, FiniteSets, TLC

VARIABLES
  scn,                 \* which program (set of signals and derivations) runs
  value,               \* State.value
  latest,              \* [$LATEST_REVISION] of every signal
  last,                \* [$LAST_REVISION] of every signal
  refs,                \* [$COMPUTED_REFS] of every signal
  lastTracked,         \* Computed.lastTracked (an array without repeats)
  lastValue,           \* Computed.lastValue
  currentRevision,     \* the global revision counter
  currentComputation,  \* the active accumulation set, or none
  currentComputedRef,  \* the Computed currentComputed() reports, or none
  consumptionEnabled,  \* the global untrack switch
  watchers,            \* the global watcher registry
  watched,             \* Watcher.watched
  stack,               \* the Computed.get() calls in progress, innermost last
  exc,                 \* an exception is propagating up the stack
  topUntrack,          \* untrack callbacks open in top-level code
  event,               \* what the last step did
  deps,                \* States the last evaluation of a Computed read, transitively
  changed,             \* a State of deps was changed by set since the last get()
  outcome,             \* how the last get() of a Computed ended
  untrackedOnly,       \* States the last evaluation read only inside untrack
  invoked,             \* derivation calls made during the current top-level get()
  staleAtStart,        \* Computeds evaluated and changed when that get() started
  unwatchedAll,        \* Watchers that unwatched all they watched, and watch nothing
  notifiedOnce,        \* Watchers whose notify was called since their last watch()
  flush                \* the flushPending() call in progress, if any

vars == <<scn, value, latest, last, refs, lastTracked, lastValue,
          currentRevision, currentComputation, currentComputedRef,
          consumptionEnabled, watchers, watched, stack, exc,
          topUntrack, event, deps, changed, outcome, untrackedOnly, invoked,
          staleAtStart, unwatchedAll, notifiedOnce, flush>>

----------------------------------------------------------------------------
(* Bounds *)

\* Top-level calls start only while the revisions handed out after
\* construction are fewer than this plus one for every Computed.
MaxBumps == 2
\* State values range over 0..MaxVal.
MaxVal == 1
\* watch() and unwatch() take at most this many arguments.
MaxArgs == 1
\* untrack callbacks nested in top-level code.
MaxUntrack == 1

Values == 0 .. MaxVal

\* lastValue of a Computed that never stored one (JS undefined), the result of
\* arithmetic on it (NaN), and the outcome of a derivation that throws.
Undefined == -1
NotANumber == -2
Throws == -3

None == "none"

----------------------------------------------------------------------------
(* The programs *)

(***************************************************************************)
(* Each program constructs its signals and Watchers and then makes any     *)
(* sequence of top-level calls on them.                                    *)
(*   chain      State a, b = a + a, c = b + 1, and the constant k = 7       *)
(*   diamond    State a, b = a, c = a + 1, d = b + c                        *)
(*   throws     States a and z, t = a + z that throws, before it reads z,   *)
(*              when a is 1, u = t + z                                      *)
(*   selfwrite  State a, w that reads a and then writes it, a State z with  *)
(*              a custom comparator                                         *)
(*   untrack    State a, u that reads a inside untrack, v that reads a in   *)
(*              an inner untrack and again in the outer one                 *)
(*   watch      State a, b = a + a, two Watchers, and top-level code that   *)
(*              calls untrack                                               *)
(* A derivation function is a list of statements: "get" reads a signal and *)
(* adds its value to the result, "add" adds a number, "set" writes a       *)
(* State, "throwif" throws when the result so far is the number given,     *)
(* "ubegin" and "uend" open and close an untrack callback.                 *)
(***************************************************************************)

Ins(op, sig, val) == [op |-> op, sig |-> sig, val |-> val]

Scenarios == {"chain", "diamond", "throws", "selfwrite", "untrack", "watch"}

\* The signals of each program, in creation order.
Created(s) ==
  CASE s = "chain"     -> <<"a", "b", "c", "k">>
    [] s = "diamond"   -> <<"a", "b", "c", "d">>
    [] s = "throws"    -> <<"a", "z", "t", "u">>
    [] s = "selfwrite" -> <<"a", "w", "z">>
    [] s = "untrack"   -> <<"a", "u", "v">>
    [] s = "watch"     -> <<"a", "b">>

\* The derivation function of each Computed; a State has none.
Program(s, x) ==
  CASE s = "chain" /\ x = "b" -> <<Ins("get", "a", 0), Ins("get", "a", 0)>>
    [] s = "chain" /\ x = "c" -> <<Ins("get", "b", 0), Ins("add", None, 1)>>
    [] s = "chain" /\ x = "k" -> <<Ins("add", None, 7)>>
    [] s = "diamond" /\ x = "b" -> <<Ins("get", "a", 0)>>
    [] s = "diamond" /\ x = "c" -> <<Ins("get", "a", 0), Ins("add", None, 1)>>
    [] s = "diamond" /\ x = "d" -> <<Ins("get", "b", 0), Ins("get", "c", 0)>>
    [] s = "throws" /\ x = "t" ->
         <<Ins("get", "a", 0), Ins("throwif", None, 1), Ins("get", "z", 0)>>
    [] s = "throws" /\ x = "u" -> <<Ins("get", "t", 0), Ins("get", "z", 0)>>
    [] s = "selfwrite" /\ x = "w" -> <<Ins("get", "a", 0), Ins("set", "a", 1)>>
    [] s = "untrack" /\ x = "u" ->
         <<Ins("ubegin", None, 0), Ins("get", "a", 0), Ins("uend", None, 0)>>
    [] s = "untrack" /\ x = "v" ->
         <<Ins("ubegin", None, 0), Ins("ubegin", None, 0), Ins("get", "a", 0),
           Ins("uend", None, 0), Ins("get", "a", 0), Ins("uend", None, 0)>>
    [] s = "watch" /\ x = "b" -> <<Ins("get", "a", 0), Ins("get", "a", 0)>>
    [] OTHER -> <<>>

Range(seq) == {seq[i] : i \in 1 .. Len(seq)}
Sigs(s) == Range(Created(s))
Computeds(s) == {x \in Sigs(s) : Program(s, x) # <<>>}
States(s) == Sigs(s) \ Computeds(s)

\* The signals the programs hand to watch() and unwatch().
Watchable(s) ==
  CASE s = "chain"     -> {"k"}
    [] s = "diamond"   -> {"d"}
    [] s = "throws"    -> {}
    [] s = "selfwrite" -> {"w"}
    [] s = "untrack"   -> {"a", "u"}
    [] s = "watch"     -> {"b"}

\* The Watchers each program constructs.
WatchersOf(s) == IF s = "watch" THEN {"w1", "w2"} ELSE {"w1"}
\* Whether the program's top-level code calls untrack.
TopUntracks(s) == s = "watch"

\* The State constructor's arguments.
InitialValue(s, x) == IF s = "throws" /\ x = "a" THEN 1 ELSE 0
\* options.equals: "strict" is the default t === t2, "near" a custom
\* comparator that holds two numbers at most 1 apart equal.
EqualsOption(s, x) == IF s = "selfwrite" /\ x = "z" THEN "near" ELSE "strict"

----------------------------------------------------------------------------
(* Helpers *)

Max(S) == CHOOSE m \in S : \A n \in S : n <= m

\* Set.prototype.add on an insertion-ordered Set.
SetAdd(seq, x) == IF x \in Range(seq) THEN seq ELSE Append(seq, x)

RECURSIVE SetAddAll(_, _)
SetAddAll(seq, xs) ==
  IF xs = <<>> THEN seq ELSE SetAddAll(SetAdd(seq, Head(xs)), Tail(xs))

\* currentComputation: null, or a Set of trackables.
NoComputation == [active |-> FALSE, set |-> <<>>]
NewComputation == [active |-> TRUE, set |-> <<>>]
CompAdd(comp, x) ==
  IF comp.active THEN [comp EXCEPT !.set = SetAdd(@, x)] ELSE comp
CompAddAll(comp, xs) ==
  IF comp.active THEN [comp EXCEPT !.set = SetAddAll(@, xs)] ELSE comp

\* Arithmetic of the derivation functions: undefined and NaN absorb.
Combine(acc, v) == IF acc < 0 \/ v < 0 THEN NotANumber ELSE acc + v

\* this.equals of a State: the default, or the comparator of options.equals.
Comparator(x, t, t2) ==
  IF EqualsOption(scn, x) = "near" THEN t - t2 \in -1 .. 1 ELSE t = t2

\* State.set without its guard: every call stores and dirties.
SetNeverSuppressed(x, v) == FALSE

\* The guard of State.set: if (this.equals(this.value, value)) return.
SetSuppressed(x, v) == Comparator(x, value[x], v)

\* isTrackedDirty
isTrackedDirty(tracked) == latest[tracked] > last[tracked]

\* getMaxRevision
getMaxRevision(trackables) ==
  Max({0} \cup {latest[trackables[i]] : i \in 1 .. Len(trackables)})

\* The memoization test without the comparison of revisions.
IsFreshOnceTracked(c) == Len(lastTracked[c]) > 0

\* The memoization test of Computed.get.
IsFresh(c) ==
  /\ Len(lastTracked[c]) > 0
  /\ latest[c] >= getMaxRevision(lastTracked[c])

\* consumeTracked, first line: the revision stamp.
consumeTrackedLast(enabled, lst, lat, tracked) ==
  IF enabled THEN [lst EXCEPT ![tracked] = lat[tracked]] ELSE lst

\* consumeTracked, second line: the accumulation set.
consumeTrackedComp(comp, tracked) == CompAdd(comp, tracked)

\* notifyWatchers calling only the Watchers that have a pending signal.
notifyPendingWatchers == [w \in WatchersOf(scn) |->
  IF w \in watchers /\ \E x \in watched[w] : isTrackedDirty(x) THEN 1 ELSE 0]

\* notifyWatchers: the calls it makes of each Watcher's notify callback.
notifyWatchers == [w \in WatchersOf(scn) |-> IF w \in watchers THEN 1 ELSE 0]
NoCalls == [w \in WatchersOf(scn) |-> 0]

\* What a derivation yields when every Computed it reads is evaluated afresh
\* on the State values val: the value, or Throws.
RECURSIVE IdealRun(_, _, _, _)
IdealValue(x, val) ==
  IF x \in States(scn) THEN val[x] ELSE IdealRun(x, val, 1, 0)
IdealRun(c, val, pc, acc) ==
  IF pc > Len(Program(scn, c)) THEN acc
  ELSE LET i == Program(scn, c)[pc] IN
    CASE i.op = "get" ->
           LET v == IdealValue(i.sig, val) IN
           IF v = Throws THEN Throws ELSE IdealRun(c, val, pc + 1, Combine(acc, v))
      [] i.op = "add" -> IdealRun(c, val, pc + 1, Combine(acc, i.val))
      [] i.op = "throwif" ->
           IF acc = i.val THEN Throws ELSE IdealRun(c, val, pc + 1, acc)
      [] OTHER -> IdealRun(c, val, pc + 1, acc)

\* The record of a step: what was called, on which signal or Watcher, the
\* value read or written, whether a written value equalled the old one,
\* whether a written State had been read by the running derivation, whether
\* the returning get() had found the Computed changed, the watched and
\* unwatched hooks the step called, how often it called each Watcher's
\* notify callback, the arguments of a watch() or unwatch() call, the
\* signals a getPending() call returned, and the sources of the evaluation
\* before that the evaluation that ended did not record.
Event(kind, sig, val) ==
  [kind |-> kind, sig |-> sig, val |-> val, equal |-> FALSE, read |-> FALSE,
   stale |-> FALSE, hooks |-> <<>>, notified |-> NoCalls, args |-> <<>>,
   pending |-> {}, dropped |-> {}]

\* No flushPending() call is in progress.
NoFlush == [w |-> None, todo |-> {}]

----------------------------------------------------------------------------
(* Initial state: every signal and Watcher constructed, nothing called yet *)

CreationIndex(s, x) == CHOOSE i \in 1 .. Len(Created(s)) : Created(s)[i] = x

Init ==
  /\ scn \in Scenarios
  /\ value = [x \in States(scn) |-> InitialValue(scn, x)]
  /\ latest = [x \in Sigs(scn) |-> CreationIndex(scn, x)]
  /\ last = [x \in Sigs(scn) |-> 0]
  /\ refs = [x \in Sigs(scn) |-> {}]
  /\ lastTracked = [c \in Computeds(scn) |-> <<>>]
  /\ lastValue = [c \in Computeds(scn) |-> Undefined]
  /\ currentRevision = Len(Created(scn))
  /\ currentComputation = NoComputation
  /\ currentComputedRef = None
  /\ consumptionEnabled = TRUE
  /\ watchers = {}
  /\ watched = [w \in WatchersOf(scn) |-> {}]
  /\ stack = <<>>
  /\ exc = FALSE
  /\ topUntrack = 0
  /\ event = Event("init", None, 0)
  /\ deps = [c \in Computeds(scn) |-> {}]
  /\ changed = [c \in Computeds(scn) |-> FALSE]
  /\ outcome = [c \in Computeds(scn) |-> "none"]
  /\ untrackedOnly = [c \in Computeds(scn) |-> {}]
  /\ invoked = [c \in Computeds(scn) |-> 0]
  /\ staleAtStart = {}
  /\ unwatchedAll = {}
  /\ notifiedOnce = [w \in WatchersOf(scn) |-> FALSE]
  /\ flush = NoFlush

----------------------------------------------------------------------------
(* The call stack *)

Flushing == flush.w # None
Idle == stack = <<>> /\ ~exc /\ ~Flushing
CanStart ==
  /\ Idle
  /\ currentRevision < Len(Created(scn)) + Cardinality(Computeds(scn)) + MaxBumps
Running == stack # <<>> /\ ~exc
AtTop == stack = <<>>
Top == stack[Len(stack)]
AtEnd == Top.pc > Len(Program(scn, Top.sig))
Instr == Program(scn, Top.sig)[Top.pc]
Callers == SubSeq(stack, 1, Len(stack) - 1)

Frame(c) ==
  [sig |-> c, pc |-> 1, acc |-> 0, prev |-> currentComputation, udepth |-> 0,
   reads |-> {}, direct |-> {}, uread |-> {}, oread |-> {},
   stale |-> outcome[c] # "none" /\ changed[c]]

\* The caller goes on after a call that read nothing.
Advance(stk) ==
  IF stk = <<>> THEN stk
  ELSE [stk EXCEPT ![Len(stk)] = [@ EXCEPT !.pc = @ + 1]]

\* The caller goes on with the value v of signal x, whose reading read the
\* States rs.
AfterRead(stk, v, x, rs) ==
  IF stk = <<>> THEN stk
  ELSE LET f == stk[Len(stk)] IN
    [stk EXCEPT ![Len(stk)] =
      [f EXCEPT !.pc = @ + 1,
                !.acc = Combine(@, v),
                !.reads = @ \cup rs,
                !.direct = IF x \in States(scn) THEN @ \cup {x} ELSE @,
                !.uread = IF x \in States(scn) /\ f.udepth > 0 THEN @ \cup {x} ELSE @,
                !.oread = IF f.udepth = 0 THEN @ \cup rs ELSE @]]

\* The caller's read of a Computed threw after reading the States rs.
AfterThrow(stk, rs) ==
  IF stk = <<>> THEN stk
  ELSE LET f == stk[Len(stk)] IN
    [stk EXCEPT ![Len(stk)] =
      [f EXCEPT !.reads = @ \cup rs,
                !.oread = IF f.udepth = 0 THEN @ \cup rs ELSE @]]

\* The Watchers whose notify callback has run since their last watch(), after
\* a step that made the calls given.
Noted(calls) ==
  [w \in WatchersOf(scn) |-> notifiedOnce[w] \/ calls[w] > 0]

Zero == [c \in Computeds(scn) |-> 0]
Stale == {c \in Computeds(scn) : outcome[c] # "none" /\ changed[c]}

\* A top-level call other than a Computed.get() ends the count of the last one.
CountReset ==
  IF AtTop THEN invoked' = Zero /\ staleAtStart' = {}
  ELSE UNCHANGED <<invoked, staleAtStart>>

----------------------------------------------------------------------------
(* State *)

\* State.set(v), with dirtyTracked and notifyWatchers.
StateSet(x, v) ==
  /\ IF SetSuppressed(x, v)
       THEN UNCHANGED <<value, latest, currentRevision, changed>>
       ELSE /\ value' = [value EXCEPT ![x] = v]
            /\ currentRevision' = currentRevision + 1
            /\ latest' = [latest EXCEPT ![x] = currentRevision + 1]
            /\ changed' = [c \in Computeds(scn) |-> changed[c] \/ x \in deps[c]]
  /\ stack' = Advance(stack)
  /\ event' = [Event("set", x, v) EXCEPT
                 !.equal = Comparator(x, value[x], v),
                 !.read = ~AtTop /\ x \in Top.direct,
                 !.notified = IF SetSuppressed(x, v) THEN NoCalls
                              ELSE notifyWatchers]
  /\ notifiedOnce' = Noted(IF SetSuppressed(x, v) THEN NoCalls ELSE notifyWatchers)
  /\ CountReset
  /\ UNCHANGED <<scn, unwatchedAll,
                 last, refs, lastTracked, lastValue, currentComputation,
                 currentComputedRef, consumptionEnabled, watchers, watched, exc,
                 topUntrack, deps, outcome, untrackedOnly>>

\* State.get() returning the value the State was constructed with.
StateGetInitial(x) ==
  /\ last' = consumeTrackedLast(consumptionEnabled, last, latest, x)
  /\ currentComputation' = consumeTrackedComp(currentComputation, x)
  /\ stack' = AfterRead(stack, InitialValue(scn, x), x, {x})
  /\ event' = Event("read", x, InitialValue(scn, x))
  /\ CountReset
  /\ UNCHANGED <<scn, unwatchedAll, notifiedOnce,
                 value, latest, refs, lastTracked, lastValue,
                 currentRevision, currentComputedRef, consumptionEnabled,
                 watchers, watched, exc, topUntrack, deps, changed,
                 outcome, untrackedOnly>>

\* State.get(), with consumeTracked.
StateGet(x) ==
  /\ last' = consumeTrackedLast(consumptionEnabled, last, latest, x)
  /\ currentComputation' = consumeTrackedComp(currentComputation, x)
  /\ stack' = AfterRead(stack, value[x], x, {x})
  /\ event' = Event("read", x, value[x])
  /\ CountReset
  /\ UNCHANGED <<scn, unwatchedAll, notifiedOnce,
                 value, latest, refs, lastTracked, lastValue,
                 currentRevision, currentComputedRef, consumptionEnabled,
                 watchers, watched, exc, topUntrack, deps, changed,
                 outcome, untrackedOnly>>

----------------------------------------------------------------------------
(* Computed *)

\* Computed.get() when the memoization test passes: lines 111-119.
ComputedHit(c) ==
  /\ IsFresh(c)
  /\ currentComputation' =
       consumeTrackedComp(CompAddAll(currentComputation, lastTracked[c]), c)
  /\ last' = consumeTrackedLast(consumptionEnabled, last, latest, c)
  /\ stack' = AfterRead(stack, lastValue[c], c, deps[c])
  /\ changed' = [changed EXCEPT ![c] = FALSE]
  /\ outcome' = [outcome EXCEPT ![c] = "value"]
  /\ event' = Event("hit", c, lastValue[c])
  /\ IF AtTop THEN invoked' = Zero /\ staleAtStart' = Stale
     ELSE UNCHANGED <<invoked, staleAtStart>>
  /\ UNCHANGED <<scn, unwatchedAll, notifiedOnce,
                 value, latest, refs, lastTracked, lastValue,
                 currentRevision, currentComputedRef, consumptionEnabled,
                 watchers, watched, exc, topUntrack, deps,
                 untrackedOnly>>

\* The reverse edges left as they are when an evaluation starts.
KeepEdges(c) == refs

\* for (let tracked of this.lastTracked) tracked[$COMPUTED_REFS].delete(this)
DropEdges(c) ==
  [t \in Sigs(scn) |->
     IF t \in Range(lastTracked[c]) THEN refs[t] \ {c} ELSE refs[t]]

\* Computed.get() when it fails: lines 121-128, up to the call of getValue.
ComputedInvoke(c) ==
  /\ ~IsFresh(c)
  /\ stack' = Append(stack, Frame(c))
  /\ currentComputation' = NewComputation
  /\ currentComputedRef' = c
  /\ refs' = DropEdges(c)
  /\ invoked' = IF AtTop THEN [Zero EXCEPT ![c] = 1]
                ELSE [invoked EXCEPT ![c] = @ + 1]
  /\ staleAtStart' = IF AtTop THEN Stale ELSE staleAtStart
  /\ event' = Event("invoke", c, 0)
  /\ UNCHANGED <<scn, unwatchedAll, notifiedOnce,
                 value, latest, last, lastTracked, lastValue,
                 currentRevision, consumptionEnabled, watchers, watched,
                 exc, topUntrack, deps, changed, outcome,
                 untrackedOnly>>

\* The finished evaluation's accumulation set left in place as the context.
KeepComputation(prev, own) == own

\* The merge into previousComputation and currentComputation =
\* previousComputation of the finally block.
RestoreComputation(prev, own) == CompAddAll(prev, own.set)

\* The end of Computed.get(): the assignment of lastValue when getValue
\* returned, the finally block (lines 129-142) either way, and the return or
\* the rethrow to the caller.  An exception that leaves an untrack callback
\* of this derivation runs untrack's finally first.
ComputedFinish(normal) ==
  LET f == Top
      c == Top.sig
      enabled == IF ~normal /\ f.udepth > 0 THEN TRUE ELSE consumptionEnabled
      tracked == currentComputation.set
      rev == currentRevision + 1
      lat == [latest EXCEPT ![c] = rev]
      own == consumeTrackedComp(currentComputation, c)
      escapes == ~normal /\ Callers = <<>>
  IN
  /\ lastValue' = IF normal THEN [lastValue EXCEPT ![c] = f.acc] ELSE lastValue
  /\ lastTracked' = [lastTracked EXCEPT ![c] = tracked]
  /\ currentRevision' = rev
  /\ latest' = lat
  /\ last' = consumeTrackedLast(enabled, last, lat, c)
  /\ refs' = [t \in Sigs(scn) |->
       IF t \in Range(tracked) THEN refs[t] \cup {c} ELSE refs[t]]
  /\ currentComputation' = RestoreComputation(f.prev, own)
  /\ currentComputedRef' = None
  /\ consumptionEnabled' = IF escapes /\ topUntrack > 0 THEN TRUE ELSE enabled
  /\ topUntrack' = IF escapes THEN 0 ELSE topUntrack
  /\ stack' = IF normal THEN AfterRead(Callers, f.acc, c, f.reads)
              ELSE AfterThrow(Callers, f.reads)
  /\ exc' = (~normal /\ Callers # <<>>)
  /\ event' = [Event(IF normal THEN "return" ELSE "unwind", c,
                     IF normal THEN f.acc ELSE Throws)
               EXCEPT !.stale = f.stale, !.notified = notifyWatchers,
                      !.dropped = Range(lastTracked[c]) \ Range(tracked)]
  /\ deps' = [deps EXCEPT ![c] = f.reads]
  /\ changed' = [changed EXCEPT ![c] = FALSE]
  /\ outcome' = [outcome EXCEPT ![c] = IF normal THEN "value" ELSE "threw"]
  /\ untrackedOnly' = [untrackedOnly EXCEPT ![c] = f.uread \ f.oread]
  /\ notifiedOnce' = Noted(notifyWatchers)
  /\ UNCHANGED <<scn, unwatchedAll,
                 value, watchers, watched, invoked, staleAtStart>>

----------------------------------------------------------------------------
(* Watcher *)

\* The arguments of a watch() or unwatch() call.
ArgLists == UNION {[1 .. n -> Watchable(scn)] : n \in 0 .. MaxArgs}

\* watch registering the Watcher whatever its set holds.
WatchAlwaysRegisters(w, set) == watchers \cup {w}

\* watch, last line: if (this.watched.size > 0) watchers.add(this).
WatchRegistry(w, set) == IF set # {} THEN watchers \cup {w} ELSE watchers

\* unwatch without its last line: the Watcher stays registered.
UnwatchKeepsRegistered(w, set) == watchers

\* unwatch, last line: if (this.watched.size === 0) watchers.delete(this).
UnwatchRegistry(w, set) == IF set = {} THEN watchers \ {w} ELSE watchers

\* Watcher.watch(...watchables): every argument's watched hook is called.
Watch(w, args) ==
  /\ watched' = [watched EXCEPT ![w] = @ \cup Range(args)]
  /\ watchers' = WatchRegistry(w, watched'[w])
  /\ event' = [Event("watch", w, 0) EXCEPT !.hooks = args, !.args = args]
  /\ notifiedOnce' = [notifiedOnce EXCEPT ![w] = FALSE]
  /\ unwatchedAll' = IF watched'[w] = {} THEN unwatchedAll
                      ELSE unwatchedAll \ {w}
  /\ CountReset
  /\ UNCHANGED <<scn, value, latest, last, refs, lastTracked, lastValue,
                 currentRevision, currentComputation, currentComputedRef,
                 consumptionEnabled, stack, exc, topUntrack, deps,
                 changed, outcome, untrackedOnly>>

\* Watcher.unwatch(...watchables): every argument's unwatched hook is called.
Unwatch(w, args) ==
  /\ watched' = [watched EXCEPT ![w] = @ \ Range(args)]
  /\ watchers' = UnwatchRegistry(w, watched'[w])
  /\ event' = [Event("unwatch", w, 0) EXCEPT !.hooks = args, !.args = args]
  /\ unwatchedAll' =
       IF watched'[w] # {} THEN unwatchedAll \ {w}
       ELSE IF watched[w] # {} THEN unwatchedAll \cup {w}
       ELSE unwatchedAll
  /\ CountReset
  /\ UNCHANGED <<scn, notifiedOnce, value, latest, last, refs, lastTracked, lastValue,
                 currentRevision, currentComputation, currentComputedRef,
                 consumptionEnabled, stack, exc, topUntrack, deps,
                 changed, outcome, untrackedOnly>>

\* Watcher.getPending()
getPending(w) == {x \in watched[w] : isTrackedDirty(x)}

----------------------------------------------------------------------------
(* Introspection *)

\* introspectSinks(source): the registered Watchers whose set has the signal,
\* and its reverse-edge set.
introspectSinks(source) ==
  {w \in watchers : source \in watched[w]} \cup refs[source]

\* hasSinks(source)
hasSinks(source) ==
  \/ refs[source] # {}
  \/ \E w \in watchers : source \in watched[w]

\* currentComputed(): the Computed, or none.
currentComputed == currentComputedRef

----------------------------------------------------------------------------
(* untrack *)

\* untrack(cb) up to the call of cb: consumptionEnabled = false.
UntrackEnter(depth) ==
  /\ consumptionEnabled' = FALSE
  /\ event' = Event("untrack", None, depth + 1)

\* untrack's finally when cb returns: consumptionEnabled = true.
UntrackLeave(depth) ==
  /\ consumptionEnabled' = TRUE
  /\ event' = Event("tracked", None, depth - 1)

----------------------------------------------------------------------------
(* Calls made by top-level code *)

TopSet ==
  /\ CanStart
  /\ \E x \in States(scn), v \in Values : StateSet(x, v)
  /\ UNCHANGED flush

TopGetState ==
  /\ CanStart
  /\ \E x \in States(scn) : StateGet(x)
  /\ UNCHANGED flush

TopGetHit ==
  /\ CanStart
  /\ \E c \in Computeds(scn) : ComputedHit(c)
  /\ UNCHANGED flush

TopGetInvoke ==
  /\ CanStart
  /\ \E c \in Computeds(scn) : ComputedInvoke(c)
  /\ UNCHANGED flush

TopWatch ==
  /\ Idle
  /\ \E w \in WatchersOf(scn), args \in ArgLists : Watch(w, args)
  /\ UNCHANGED flush

TopUnwatch ==
  /\ Idle
  /\ \E w \in WatchersOf(scn), args \in ArgLists : Unwatch(w, args)
  /\ UNCHANGED flush

TopUntrackBegin ==
  /\ Idle
  /\ TopUntracks(scn)
  /\ topUntrack < MaxUntrack
  /\ UntrackEnter(topUntrack)
  /\ topUntrack' = topUntrack + 1
  /\ CountReset
  /\ UNCHANGED <<scn, unwatchedAll, notifiedOnce,
                 value, latest, last, refs, lastTracked, lastValue,
                 currentRevision, currentComputation, currentComputedRef,
                 watchers, watched, stack, exc, deps, changed,
                 outcome, untrackedOnly>>
  /\ UNCHANGED flush

TopUntrackEnd ==
  /\ Idle
  /\ topUntrack > 0
  /\ UntrackLeave(topUntrack)
  /\ topUntrack' = topUntrack - 1
  /\ CountReset
  /\ UNCHANGED <<scn, unwatchedAll, notifiedOnce,
                 value, latest, last, refs, lastTracked, lastValue,
                 currentRevision, currentComputation, currentComputedRef,
                 watchers, watched, stack, exc, deps, changed,
                 outcome, untrackedOnly>>
  /\ UNCHANGED flush

----------------------------------------------------------------------------
(* flushPending, the helper of the Watcher tests *)

\* for (const signal of watcher.getPending()): the call of getPending.
FlushBegin ==
  /\ CanStart
  /\ \E w \in WatchersOf(scn) :
       /\ getPending(w) # {}
       /\ flush' = [w |-> w, todo |-> getPending(w)]
       /\ event' = [Event("pending", w, 0) EXCEPT !.pending = getPending(w)]
  /\ CountReset
  /\ UNCHANGED <<scn, unwatchedAll, notifiedOnce,
                 value, latest, last, refs, lastTracked, lastValue,
                 currentRevision, currentComputation, currentComputedRef,
                 consumptionEnabled, watchers, watched, stack, exc,
                 topUntrack, deps, changed, outcome, untrackedOnly>>

\* The loop is at a signal that is still to be read.
FlushNext == stack = <<>> /\ ~exc /\ Flushing /\ flush.todo # {}

\* signal.get() on a pending State.
FlushGetState ==
  /\ FlushNext
  /\ \E x \in flush.todo \cap States(scn) :
       /\ StateGet(x)
       /\ flush' = [flush EXCEPT !.todo = @ \ {x}]

\* signal.get() on a pending Computed that passes the memoization test.
FlushGetHit ==
  /\ FlushNext
  /\ \E c \in flush.todo \cap Computeds(scn) :
       /\ ComputedHit(c)
       /\ flush' = [flush EXCEPT !.todo = @ \ {c}]

\* signal.get() on a pending Computed that fails it.
FlushGetInvoke ==
  /\ FlushNext
  /\ \E c \in flush.todo \cap Computeds(scn) :
       /\ ComputedInvoke(c)
       /\ flush' = [flush EXCEPT !.todo = @ \ {c}]

\* expect(watcher.getPending()).toStrictEqual([]): the second getPending.
FlushEnd ==
  /\ stack = <<>> /\ ~exc /\ Flushing /\ flush.todo = {}
  /\ event' = [Event("flushed", flush.w, 0) EXCEPT
                 !.pending = getPending(flush.w)]
  /\ flush' = NoFlush
  /\ CountReset
  /\ UNCHANGED <<scn, unwatchedAll, notifiedOnce,
                 value, latest, last, refs, lastTracked, lastValue,
                 currentRevision, currentComputation, currentComputedRef,
                 consumptionEnabled, watchers, watched, stack, exc,
                 topUntrack, deps, changed, outcome, untrackedOnly>>

----------------------------------------------------------------------------
(* Steps of the derivation function that is running *)

ExecSet ==
  /\ Running /\ ~AtEnd /\ Instr.op = "set"
  /\ StateSet(Instr.sig, Instr.val)
  /\ UNCHANGED flush

ExecGetState ==
  /\ Running /\ ~AtEnd /\ Instr.op = "get" /\ Instr.sig \in States(scn)
  /\ StateGet(Instr.sig)
  /\ UNCHANGED flush

ExecGetHit ==
  /\ Running /\ ~AtEnd /\ Instr.op = "get" /\ Instr.sig \in Computeds(scn)
  /\ ComputedHit(Instr.sig)
  /\ UNCHANGED flush

ExecGetInvoke ==
  /\ Running /\ ~AtEnd /\ Instr.op = "get" /\ Instr.sig \in Computeds(scn)
  /\ ComputedInvoke(Instr.sig)
  /\ UNCHANGED flush

ExecAdd ==
  /\ Running /\ ~AtEnd /\ Instr.op = "add"
  /\ stack' = [stack EXCEPT ![Len(stack)] =
       [@ EXCEPT !.pc = @ + 1, !.acc = Combine(@, Instr.val)]]
  /\ event' = Event("add", Top.sig, Instr.val)
  /\ UNCHANGED <<scn, unwatchedAll, notifiedOnce,
                 value, latest, last, refs, lastTracked, lastValue,
                 currentRevision, currentComputation, currentComputedRef,
                 consumptionEnabled, watchers, watched, exc,
                 topUntrack, deps, changed, outcome, untrackedOnly, invoked,
                 staleAtStart>>
  /\ UNCHANGED flush

\* if (acc === val) throw
ExecThrowIf ==
  /\ Running /\ ~AtEnd /\ Instr.op = "throwif"
  /\ IF Top.acc = Instr.val
       THEN /\ exc' = TRUE
            /\ stack' = stack
            /\ event' = Event("throw", Top.sig, Throws)
       ELSE /\ exc' = FALSE
            /\ stack' = Advance(stack)
            /\ event' = Event("nothrow", Top.sig, 0)
  /\ UNCHANGED <<scn, unwatchedAll, notifiedOnce,
                 value, latest, last, refs, lastTracked, lastValue,
                 currentRevision, currentComputation, currentComputedRef,
                 consumptionEnabled, watchers, watched, topUntrack, deps, changed, outcome, untrackedOnly, invoked,
                 staleAtStart>>
  /\ UNCHANGED flush

ExecUntrackBegin ==
  /\ Running /\ ~AtEnd /\ Instr.op = "ubegin"
  /\ UntrackEnter(Top.udepth)
  /\ stack' = [stack EXCEPT ![Len(stack)] =
       [@ EXCEPT !.pc = @ + 1, !.udepth = @ + 1]]
  /\ UNCHANGED <<scn, unwatchedAll, notifiedOnce,
                 value, latest, last, refs, lastTracked, lastValue,
                 currentRevision, currentComputation, currentComputedRef,
                 watchers, watched, exc, topUntrack, deps, changed,
                 outcome, untrackedOnly, invoked, staleAtStart>>
  /\ UNCHANGED flush

ExecUntrackEnd ==
  /\ Running /\ ~AtEnd /\ Instr.op = "uend"
  /\ UntrackLeave(Top.udepth)
  /\ stack' = [stack EXCEPT ![Len(stack)] =
       [@ EXCEPT !.pc = @ + 1, !.udepth = @ - 1]]
  /\ UNCHANGED <<scn, unwatchedAll, notifiedOnce,
                 value, latest, last, refs, lastTracked, lastValue,
                 currentRevision, currentComputation, currentComputedRef,
                 watchers, watched, exc, topUntrack, deps, changed,
                 outcome, untrackedOnly, invoked, staleAtStart>>
  /\ UNCHANGED flush

\* getValue returned.
Return ==
  /\ Running /\ AtEnd
  /\ ComputedFinish(TRUE)
  /\ UNCHANGED flush

\* getValue, or a Computed it read, threw.  An exception that reaches
\* top-level code ends the flushPending() call that made the get().
Unwind ==
  /\ stack # <<>> /\ exc
  /\ ComputedFinish(FALSE)
  /\ flush' = IF Callers = <<>> THEN NoFlush ELSE flush

----------------------------------------------------------------------------

Next ==
  \/ TopSet
  \/ TopGetState
  \/ TopGetHit
  \/ TopGetInvoke
  \/ TopWatch
  \/ TopUnwatch
  \/ TopUntrackBegin
  \/ TopUntrackEnd
  \/ FlushBegin
  \/ FlushGetState
  \/ FlushGetHit
  \/ FlushGetInvoke
  \/ FlushEnd
  \/ ExecSet
  \/ ExecGetState
  \/ ExecGetHit
  \/ ExecGetInvoke
  \/ ExecAdd
  \/ ExecThrowIf
  \/ ExecUntrackBegin
  \/ ExecUntrackEnd
  \/ Return
  \/ Unwind

Spec == Init /\ [][Next]_vars

----------------------------------------------------------------------------
(* Properties *)

\* A call of get() on a Computed was made by the step.
GetCalled(c) == event'.kind \in {"hit", "invoke"} /\ event'.sig = c
\* The step called the derivation function of c.
DerivationInvoked(c) == event'.kind = "invoke" /\ event'.sig = c
\* The last get() of c returned, and no State its derivation read has been
\* changed by set since.
Unchanged(c) == outcome[c] = "value" /\ ~changed[c]
\* c has been evaluated, and a State its last evaluation read has been
\* changed by set since the last get().
Invalidated(c) == outcome[c] # "none" /\ changed[c]

\* C1. Memoization: a get() of a Computed whose last get() returned, with no
\* State that its derivation read (directly or through other Computeds)
\* changed by set in between, does not invoke the derivation function.
Memoization ==
  [][\A c \in Computeds(scn) : Unchanged(c) => ~DerivationInvoked(c)]_vars

\* C2. Invalidation: the next get() of an evaluated Computed after a set
\* changed a State its last evaluation read invokes the derivation function,
\* and what that get() returns is the value derived from the State values.
Invalidation ==
  [][/\ \A c \in Computeds(scn) :
          Invalidated(c) /\ GetCalled(c) => DerivationInvoked(c)
     /\ event'.kind = "return" /\ event'.stale
          => event'.val = IdealValue(event'.sig, value')]_vars

\* C3. Equality suppression: a set(v) with v equal per the comparator to the
\* current value leaves the revision counter, every value and both revision
\* stamps as they were and calls no notify callback.
EqualitySuppression ==
  [][event'.kind = "set" /\ event'.equal
       => /\ UNCHANGED <<currentRevision, value, latest, last>>
          /\ event'.notified = NoCalls]_vars

\* A suppressed set, of another value than the State holds, with a Watcher
\* registered.
EqualitySuppressionWitness ==
  /\ event.kind = "set" /\ event.equal
  /\ event.val # value[event.sig]
  /\ watchers # {}

\* A top-level d.get() of the diamond program has just ended, and when it
\* started b, c and d had been evaluated and a had been changed since.
DiamondGetDone ==
  /\ scn = "diamond" /\ AtTop
  /\ event.kind \in {"hit", "return", "unwind"} /\ event.sig = "d"
  /\ {"b", "c", "d"} \subseteq staleAtStart

\* C4. Diamond: with a read by b and c, and b and c read by d, all evaluated
\* and a changed since, one top-level d.get() invokes the derivation
\* functions of b, of c and of d exactly once each.
DiamondOnce ==
  DiamondGetDone => invoked["b"] = 1 /\ invoked["c"] = 1 /\ invoked["d"] = 1

\* Such a d.get() returned.
DiamondOnceWitness == DiamondGetDone /\ event.kind = "return"

\* C5. Compute failure: the next get() of a Computed whose last get() threw
\* invokes the derivation function again.
ComputeFailureRetried ==
  [][\A c \in Computeds(scn) :
       outcome[c] = "threw" /\ GetCalled(c) => DerivationInvoked(c)]_vars

\* C6. Self-write rejection: a set, to a different value, of a State that the
\* running derivation has read throws.
SelfWriteRejected ==
  event.kind = "set" /\ event.read /\ ~event.equal => exc

\* C7. Untrack: a State that an evaluation read only inside untrack is not
\* among the sources recorded for the Computed.
UntrackedNotRecorded ==
  \A c \in Computeds(scn) : untrackedOnly[c] \cap Range(lastTracked[c]) = {}

OnlySetNotifies ==
  event.notified # NoCalls => event.kind = "set"

\* C10. Unwatch stops notifications: no step calls the notify callback of a
\* Watcher that has unwatched every signal of its set and watched none since.
UnwatchStopsNotifications ==
  \A w \in unwatchedAll : event.notified[w] = 0

\* A changing set, made while one Watcher has unwatched all its signals and
\* another is notified.
UnwatchStopsNotificationsWitness ==
  /\ event.kind = "set" /\ ~event.equal
  /\ unwatchedAll # {}
  /\ \E w \in watchers : event.notified[w] = 1

\* The Computeds whose get() is in progress.
Evaluating == {stack[i].sig : i \in 1 .. Len(stack)}

\* C11. getPending reports stale Computeds: when a State is set to a
\* different value, getPending() of every Watcher contains the evaluated
\* Computeds it watches whose last evaluation read that State (directly or
\* through other Computeds), and each stays in it until a step that calls
\* get() on it.
PendingReportsStale ==
  [][\A w \in WatchersOf(scn) : \A c \in watched[w] \cap Computeds(scn) :
       /\ /\ event'.kind = "set" /\ ~event'.equal
          /\ outcome[c] # "none" /\ event'.sig \in deps[c]
          /\ c \notin Evaluating
          => c \in getPending(w)'
       /\ /\ Invalidated(c) /\ c \notin Evaluating
          /\ c \in getPending(w) /\ c \in watched'[w]
          /\ ~GetCalled(c)
          => c \in getPending(w)']_vars

\* C12. Flush: when flushPending has called get() on every signal that
\* getPending() returned, getPending() returns the empty list.
FlushEmpties ==
  event.kind = "flushed" => event.pending = {}

\* C13. Notify at most once per watch: a step calls a Watcher's notify
\* callback at most once, and not at all when it has been called since the
\* Watcher's last watch() call.
NotifyOncePerWatch ==
  [][\A w \in WatchersOf(scn) :
       event'.notified[w] > 0
         => ~notifiedOnce[w] /\ event'.notified[w] = 1]_vars

\* Whether s is watched: in the set wd[w] of some Watcher, or a source, in
\* the lists lt, of a Computed that is watched.
RECURSIVE IsWatched(_, _, _)
IsWatched(s, wd, lt) ==
  \/ \E w \in WatchersOf(scn) : s \in wd[w]
  \/ \E c \in Computeds(scn) : s \in Range(lt[c]) /\ IsWatched(c, wd, lt)

\* How many times a hook of s is among the hooks called.
HookCalls(hooks, s) == Cardinality({i \in 1 .. Len(hooks) : hooks[i] = s})

\* C14. onWatched only on transition: a watch() call invokes the watched hook
\* of an argument once if the signal was unwatched before the call (in no
\* Watcher's set and not a source of a watched Computed), and not at all if
\* it was already watched, by the same or by another Watcher.
WatchedHookOnTransition ==
  [][event'.kind = "watch"
       => \A s \in Range(event'.args) :
            HookCalls(event'.hooks, s) =
              IF IsWatched(s, watched, lastTracked) THEN 0 ELSE 1]_vars

\* C15. onUnwatched exactly on becoming unwatched: an unwatch() call invokes
\* the unwatched hook of an argument once if the signal was watched before
\* the call and is reachable from no Watcher after it, and not at all
\* otherwise.
UnwatchedHookOnTransition ==
  [][event'.kind = "unwatch"
       => \A s \in Range(event'.args) :
            HookCalls(event'.hooks, s) =
              IF /\ IsWatched(s, watched, lastTracked)
                 /\ ~IsWatched(s, watched', lastTracked')
              THEN 1 ELSE 0]_vars

\* C16. Constant Computed: a get() of a Computed whose last evaluation
\* returned and recorded no sources does not invoke the derivation function
\* and returns the value stored.
ConstantComputedFresh ==
  [][\A c \in Computeds(scn) :
       outcome[c] = "value" /\ lastTracked[c] = <<>> /\ GetCalled(c)
         => ~DerivationInvoked(c) /\ event'.val = lastValue[c]]_vars

\* C17. hasSinks means live: when no get() is in progress, hasSinks(s) is
\* true exactly if s is watched by a Watcher or is a source, in its last
\* evaluation, of a Computed that is (recursively) watched, and
\* introspectSinks(s) lists only Watchers and watched Computeds.
HasSinksMeansLive ==
  AtTop /\ ~exc
    => \A s \in Sigs(scn) :
         /\ hasSinks(s) <=> IsWatched(s, watched, lastTracked)
         /\ \A x \in introspectSinks(s) :
              x \in WatchersOf(scn) \/ IsWatched(x, watched, lastTracked)

\* C18. currentComputed: while a derivation function is running,
\* currentComputed() is the innermost Computed whose derivation is running,
\* and outside any derivation it is no Computed.
CurrentComputedInnermost ==
  /\ Running => currentComputed = Top.sig
  /\ AtTop => currentComputed = None

\* C19. Read-after-write: a set of a value not equal, per the comparator, to
\* the one held stores its argument in that State and in no other, any other
\* step leaves every State's value as it is, and a get() of a State returns
\* the value it holds.
ReadAfterWrite ==
  [][/\ event'.kind = "set" /\ ~event'.equal
          => value' = [value EXCEPT ![event'.sig] = event'.val]
     /\ event'.kind = "set" /\ event'.equal => value' = value
     /\ event'.kind # "set" => value' = value
     /\ event'.kind = "read" => event'.val = value[event'.sig]]_vars

\* A get() of a State returned a value other than the initial one, written
\* by an earlier set.
ReadAfterWriteWitness ==
  /\ event.kind = "read"
  /\ event.val # InitialValue(scn, event.sig)
  /\ event.val = value[event.sig]

\* C20. Registry invariant: a Watcher is in the global watcher registry
\* exactly if its watched set is not empty.
RegistryMatchesWatched ==
  \A w \in WatchersOf(scn) : w \in watchers <=> watched[w] # {}

\* An unwatch() of a signal the Watcher did not watch, made while it watches
\* another, and a watch() without arguments by a Watcher that watches nothing.
RegistryMatchesWatchedWitness ==
  \/ /\ event.kind = "unwatch" /\ event.args # <<>>
     /\ watched[event.sig] # {} /\ event.sig \in watchers
  \/ /\ event.kind = "watch" /\ event.args = <<>>
     /\ watched[event.sig] = {} /\ event.sig \notin watchers

\* C21. Reverse-edge consistency: whenever no get() is in progress, a
\* Computed is in the reverse-edge set of a signal exactly if the signal is
\* in the Computed's last-recorded source list.
ReverseEdgesConsistent ==
  AtTop /\ ~exc
    => \A c \in Computeds(scn) : \A t \in Sigs(scn) :
         c \in refs[t] <=> t \in Range(lastTracked[c])

\* A top-level get() ended, by a throw, an evaluation that did not record a
\* source the evaluation before had recorded.
ReverseEdgesConsistentWitness ==
  /\ AtTop /\ ~exc
  /\ event.kind = "unwind" /\ event.dropped # {}
  /\ \A t \in event.dropped : event.sig \notin refs[t]

\* The insertion-ordered set p with, possibly, more signals added.
Extends(q, p) == Len(p) <= Len(q) /\ SubSeq(q, 1, Len(p)) = p

\* C22. Tracking context restored: the step that ends a Computed.get(), by a
\* return or by a throw, leaves as the active tracking context the one, or
\* the absence of one, that was active when the call was made (the same
\* accumulation set, with the sources merged into it), and when a top-level
\* get() has ended no tracking context is active.
ContextRestored ==
  [][/\ event'.kind = "invoke" => Top'.prev = currentComputation
     /\ event'.kind \in {"return", "unwind"}
          => /\ currentComputation'.active = Top.prev.active
             /\ Extends(currentComputation'.set, Top.prev.set)
     /\ stack' = <<>> => currentComputation' = NoComputation]_vars

\* A get() made by a derivation that had recorded a source ended, by a throw
\* or by a return, and the derivation's context is active again.
ContextRestoredWitness ==
  /\ event.kind \in {"return", "unwind"}
  /\ stack # <<>>
  /\ currentComputation.active
  /\ \E t \in Range(currentComputation.set) :
       t # event.sig /\ t \notin Range(lastTracked[event.sig])

\* An untrack callback is running: one called by top-level code or by a
\* derivation function whose Computed.get() is in progress.
InUntrack ==
  topUntrack > 0 \/ \E i \in 1 .. Len(stack) : stack[i].udepth > 0

\* C23. Nested untrack: consumption is disabled while an untrack callback is
\* running, also after an untrack call made inside it has returned, and
\* enabled while none is.
UntrackKeepsDisabled ==
  ~exc => (consumptionEnabled <=> ~InUntrack)

====
